---- MODULE Spec2Model ----
(***************************************************************************)
(* crstats: the view recorder (StatsClient.AddView), the aggregator        *)
(* (StatsClient.FetchComicStats), the connection manager (Connect,         *)
(* reconnect, errorHandler) and the ingestion queue (viewQueue,            *)
(* viewLogger), over a model of the Redis commands the code issues.        *)
(*                                                                         *)
(* Every store command is one step.  A command issued while the store is   *)
(* unreachable (up = FALSE) has no effect on the store and yields an error *)
(* reply.  A command issued on a nil connection panics (nil *redis.Client).*)
(* time.Now().Unix() is the variable now, read by each command that uses   *)
(* it.  Keys with a TTL vanish when the clock reaches their expiry.        *)
(***************************************************************************)
EXTENDS Integers, Sequences, FiniteSets, TLC

\* ------------------------------------------------------------ constants

\* 60*60*24, the lifetime of the dedupe marker and the daily window
Day == 86400

\* 60*60*24*14, the lifetime of the counter and the reader window
TwoWeeks == Day * 14

\* capacity of viewQueue
QueueCap == 1024

\* ------------------------------------------------------------ bounds

\* number of clock advances in a behaviour
MaxTicks == 2

\* number of handler calls a direct caller makes in a behaviour
MaxCalls == 2

\* number of times the store changes between reachable and unreachable
MaxFlips == 2

\* number of views producers enqueue in a behaviour
MaxEnq == 2

\* free slots of viewQueue at the start of a behaviour of the full-queue
\* specification
Room == 1

\* number of views viewLogger receives in a behaviour of the full-queue
\* specification
MaxRecv == 3

\* calls and clock advances in a behaviour of the two-comic specification
FrameCalls == 3

FrameTicks == 1

\* calls and clock advances in a behaviour of the reachable-store specification
ReachCalls == 4

ReachTicks == 3

\* clock advances in a behaviour of the concurrent specification
ConcTicks == 1

\* AddView calls and clock advances in a behaviour of the reader-and-writer
\* specification
RaceCalls == 3

RaceTicks == 2

Comics == {"c1"}

\* the comics of the specification that looks at two comics
AllComics == Comics \cup {"c2"}

Guests == {"g1", "g2"}

\* the clock at the start of a behaviour (a Unix time, in seconds)
StartTime == Day * 16000

\* the amounts by which the clock advances in one step
Jumps == {Day - 1, Day, TwoWeeks}

Logger == "logger"

Callers == {"p1", "p2", "p3"}

\* goroutines that use one StatsClient between them
Sharers == {"s1", "s2"}

Procs == Callers \cup {Logger} \cup Sharers

\* the StatsClient process i uses: its own, but for the sharers, who use the
\* first sharer's
ClientOf(i) == IF i \in Sharers THEN "s1" ELSE i

\* ------------------------------------------------------------ the store

\* Redis keys: "guest-"+comicId+"-"+guestId, "visitor-"+comicId+"-"+guestId,
\* "comics", "readers-"+comicId, "visitors-daily-"+comicId
GuestKey(c, g) == <<"guest", c, g>>

VisitorKey(c, g) == <<"visitor", c, g>>

ComicsKey == <<"comics">>

ReadersKey(c) == <<"readers", c>>

VisitorsDailyKey(c) == <<"visitors-daily", c>>

StringKeys == {GuestKey(c, g) : c \in AllComics, g \in Guests}
                \cup {VisitorKey(c, g) : c \in AllComics, g \in Guests}

ZSetKeys == {ComicsKey} \cup {ReadersKey(c) : c \in AllComics}
              \cup {VisitorsDailyKey(c) : c \in AllComics}

\* kv: the integer value of each existing string key; exp: the expiry time of
\* each key that has a TTL; zs: each sorted set, member -> score (an absent
\* sorted set is the empty function)
EmptyStore == [kv |-> <<>>, exp |-> <<>>, zs |-> [k \in ZSetKeys |-> <<>>]]

\* f with x mapped to v (x is added to the domain when absent)
Put(f, x, v) == [y \in (DOMAIN f) \cup {x} |-> IF y = x THEN v ELSE f[y]]

\* f restricted to the domain D
Restrict(f, D) == [y \in D |-> f[y]]

\* the store at time t: keys whose expiry has been reached are gone
Expire(S, t) ==
    LET dead == {k \in DOMAIN S.exp : S.exp[k] <= t}
    IN  [S EXCEPT !.kv = Restrict(S.kv, (DOMAIN S.kv) \ dead),
                  !.exp = Restrict(S.exp, (DOMAIN S.exp) \ dead)]

\* SET key 1 EX ttl at time t, without NX: the key is written whether or not it
\* exists
SetEX(S, k, ttl, t) ==
    <<[S EXCEPT !.kv = Put(S.kv, k, 1), !.exp = Put(S.exp, k, t + ttl)], "OK">>

\* SET key 1 NX EX ttl at time t: <<store, reply>>; the reply is "Nil" when the
\* key exists (nothing changes) and "OK" otherwise
SetNXEX(S, k, ttl, t) ==
    IF k \in DOMAIN S.kv
    THEN <<S, "Nil">>
    ELSE <<[S EXCEPT !.kv = Put(S.kv, k, 1), !.exp = Put(S.exp, k, t + ttl)], "OK">>

\* INCR key: <<store, new value>>; a key that does not exist counts from 0 and
\* is created without a TTL, an existing key keeps its TTL
Incr(S, k) ==
    LET v == IF k \in DOMAIN S.kv THEN S.kv[k] + 1 ELSE 1
    IN  <<[S EXCEPT !.kv = Put(S.kv, k, v)], v>>

\* EXPIRE key ttl at time t: no effect on a key that does not exist
ExpireCmd(S, k, ttl, t) ==
    IF k \in DOMAIN S.kv THEN [S EXCEPT !.exp = Put(S.exp, k, t + ttl)] ELSE S

\* ZADD key score member: adds the member or updates its score
ZAdd(S, k, score, m) == [S EXCEPT !.zs[k] = Put(S.zs[k], m, score)]

\* ZSCORE key member: the member is in the set (otherwise the reply is Nil)
ZHas(S, k, m) == m \in DOMAIN S.zs[k]

ZScore(S, k, m) == S.zs[k][m]

\* a plausible slip: ZREMRANGEBYSCORE key -inf +inf, which empties the set
ZRemRangeAll(S, k, max) == [S EXCEPT !.zs[k] = Restrict(S.zs[k], {})]

\* ZREMRANGEBYSCORE key -inf max: removes the members with score <= max
ZRemRangeByScore(S, k, max) ==
    [S EXCEPT !.zs[k] = Restrict(S.zs[k], {m \in DOMAIN S.zs[k] : S.zs[k][m] > max})]

\* ZCARD key
ZCard(S, k) == Cardinality(DOMAIN S.zs[k])

\* ZCOUNT key min +inf: the number of members with score >= min
ZCount(S, k, min) == Cardinality({m \in DOMAIN S.zs[k] : S.zs[k][m] >= min})

\* ------------------------------------------------------------ state

VARIABLES
    now,          \* time.Now().Unix()
    ticks,        \* clock advances so far
    up,           \* the store is reachable
    flips,        \* changes of up so far
    store,        \* the contents of the Redis server
    conn,         \* client.connection of each process's StatsClient: "nil" or "open"
    lastError,    \* client.LastError: "nil", "cmd" (a command's error) or "dial"
    pc,           \* the statement each process is at
    op,           \* the StatsClient method each process is in
    arg,          \* its arguments: [ComicId, GuestId]
    daysVisited,  \* AddView's daysVisited
    incrErr,      \* AddView's err (of r.Int() on the INCR reply) is non-nil
    ret,          \* the error the last call returned
    stats,        \* FetchComicStats's stats
    queue,        \* viewQueue
    view,         \* viewLogger's view
    enq,          \* history: the views enqueued so far
    made,         \* history: the View objects the handlers have made, in order
    qid,          \* history: which of them each element of viewQueue is
    held,         \* history: which of them viewLogger's view is (0: none)
    sent,         \* history: the sends on viewQueue, in order
    taken,        \* history: number of receives from viewQueue
    done,         \* history: the views viewLogger has finished with
    wire,         \* the processes with a command written to their connection and not yet answered
    calls,        \* calls each direct caller has made so far
    log,          \* history: the current (or last) call of each process
    prev,         \* history: the call before it
    counted,      \* history: the comics some AddView that set the marker returned nil for
    tally,        \* history: per pair, the commands answered in its current 24-hour window
    streak        \* history: per pair, the run of successful calls on distinct days

envVars == <<now, ticks, up, flips>>

clientVars == <<conn, lastError>>

frameVars == <<op, arg, daysVisited, incrErr, stats>>

queueVars == <<queue, view, enq, made, qid, held, sent, taken, done>>

histVars == <<calls, log, prev, counted, tally, streak>>

vars == <<wire, made, qid, held, sent, taken, done,
          now, ticks, up, flips, store, conn, lastError, pc, op, arg, daysVisited,
          incrErr, ret, stats, queue, view, enq, calls, log, prev, counted, tally,
          streak>>

Views == [ComicId : Comics, GuestId : Guests]

AllViews == [ComicId : AllComics, GuestId : Guests]

NoView == [ComicId |-> "", GuestId |-> ""]

\* stats = &ComicStats{ComicId: comicId}
NewStats == [LastSeen |-> 0, Readers |-> 0, Readers24h |-> 0, Visitors24h |-> 0]

NoCall == [op |-> "none", arg |-> NoView, t0 |-> 0, pre |-> EmptyStore,
           cmds |-> <<>>, until |-> 0, post |-> EmptyStore, ret |-> "none"]

NoTally == [since |-> 0, incr |-> 0, daily |-> 0, readers |-> 0]

\* the tally of a pair whose marker is set at time t: a new count when the 24
\* hours of the window counted so far are over
Opened(ta, t) == IF t >= ta.since + Day THEN [NoTally EXCEPT !.since = t] ELSE ta

Init ==
    /\ now = StartTime
    /\ ticks = 0
    /\ up = TRUE
    /\ flips = 0
    /\ store = EmptyStore
    /\ conn = [i \in Procs |-> "nil"]
    /\ lastError = [i \in Procs |-> "nil"]
    /\ pc = [i \in Procs |-> "start"]
    /\ op = [i \in Procs |-> "none"]
    /\ arg = [i \in Procs |-> NoView]
    /\ daysVisited = [i \in Procs |-> 0]
    /\ incrErr = [i \in Procs |-> FALSE]
    /\ ret = [i \in Procs |-> "none"]
    /\ stats = [i \in Procs |-> NewStats]
    /\ queue = <<>>
    /\ view = NoView
    /\ enq = {}
    /\ made = <<>>
    /\ qid = <<>>
    /\ held = 0
    /\ sent = <<>>
    /\ taken = 0
    /\ done = {}
    /\ wire = {}
    /\ calls = [i \in Procs |-> 0]
    /\ log = [i \in Procs |-> NoCall]
    /\ prev = [i \in Procs |-> [op |-> "none", arg |-> NoView, t0 |-> 0, clean |-> TRUE,
                                 until |-> 0]]
    /\ counted = {}
    /\ tally = [v \in AllViews |-> NoTally]
    /\ streak = [v \in AllViews |-> [n |-> 0, last |-> 0]]

\* ------------------------------------------------------------ history

\* what the call before is remembered by: the method, its arguments, its time,
\* whether every command it issued was answered without an error, and the
\* expiry of the dedupe marker its SET set or found
Summary(l) ==
    [op |-> l.op, arg |-> l.arg, t0 |-> l.t0,
     clean |-> \A n \in DOMAIN l.cmds : l.cmds[n].ok, until |-> l.until]

\* the call of process i that is starting: the previous one moves to prev; the
\* store a FetchComicStats call finds is kept in pre
Begin(i, o, a) ==
    /\ prev' = [prev EXCEPT ![i] = Summary(log[i])]
    /\ log' = [log EXCEPT ![i] = [op |-> o, arg |-> a, t0 |-> now,
                                  pre |-> IF o = "FetchComicStats" THEN store ELSE EmptyStore,
                                  cmds |-> <<>>, until |-> 0, post |-> EmptyStore,
                                  ret |-> "none"]]

\* the log of process i with one more command: its name, whether its reply was
\* not an error, the reply, and whether it changed the store, S being the
\* store after it
Logged(i, c, ok, reply, S) ==
    [log[i] EXCEPT !.cmds = Append(@, [cmd |-> c, ok |-> ok, reply |-> reply,
                                       eff |-> S # store])]

\* the run of successful calls of a pair on distinct days, one more call having
\* set the marker and returned nil at time t: the run goes on while the previous
\* call is less than the counter's 14 days back
NextStreak(st, t) ==
    IF st.n > 0 /\ t < st.last + TwoWeeks THEN [n |-> st.n + 1, last |-> t]
    ELSE [n |-> 1, last |-> t]

\* the call returns r; the store a FetchComicStats call leaves is kept in post
Ended(l, r, S) ==
    [l EXCEPT !.post = IF l.op = "FetchComicStats" THEN S ELSE EmptyStore, !.ret = r]

\* ------------------------------------------------------------ control

\* a process is inside a StatsClient method
InCall(i) == pc[i] \notin {"start", "idle", "LG_RECV", "LG_REQUEUE", "panic"}

\* a plausible slip: viewLogger receives the next view whatever AddView
\* returned
AfterReturnDrop(i, r) == IF i # Logger THEN "idle" ELSE "LG_RECV"

\* where process i continues when its call returns r: viewLogger re-queues the
\* view when AddView returned an error and receives the next one otherwise
AfterReturn(i, r) ==
    IF i # Logger THEN "idle"
    ELSE IF op[i] = "AddView" /\ r # "nil" THEN "LG_REQUEUE" ELSE "LG_RECV"

\* the call of process i goes on at statement l, its log now being lg
Continue(i, lg, l) ==
    /\ pc' = [pc EXCEPT ![i] = l]
    /\ log' = [log EXCEPT ![i] = lg]
    /\ UNCHANGED <<ret, prev, calls>>

\* the call of process i returns r, its log now being lg and the store S
Finish(i, lg, r, S) ==
    /\ pc' = [pc EXCEPT ![i] = AfterReturn(i, r)]
    /\ ret' = [ret EXCEPT ![i] = r]
    /\ log' = [log EXCEPT ![i] = Ended(lg, r, S)]
    /\ UNCHANGED <<prev, calls>>

\* a command on a nil *redis.Client: the goroutine panics
Panic(i) ==
    /\ pc' = [pc EXCEPT ![i] = "panic"]
    /\ UNCHANGED <<envVars, store, clientVars, frameVars, ret, queueVars, histVars>>

\* ------------------------------------------------------------ Connect, errorHandler

\* Connect -> reconnect: DialTimeout (and CONFIG SET save, which changes nothing
\* modelled here); when the dial fails Connect calls errorHandler(err)
Connect(i) ==
    /\ UNCHANGED wire
    /\ pc[i] = "start"
    /\ op' = [op EXCEPT ![i] = "Connect"]
    /\ Begin(i, "Connect", NoView)
    /\ IF up
       THEN /\ conn' = [conn EXCEPT ![ClientOf(i)] = "open"]
            /\ pc' = [pc EXCEPT ![i] = AfterReturn(i, "nil")]
            /\ ret' = [ret EXCEPT ![i] = "nil"]
            /\ UNCHANGED lastError
       ELSE /\ lastError' = [lastError EXCEPT ![ClientOf(i)] = "dial"]
            /\ pc' = [pc EXCEPT ![i] = "EH_PING"]
            /\ UNCHANGED <<conn, ret>>
    /\ UNCHANGED <<envVars, store, arg, daysVisited, incrErr, stats, queueVars, calls,
                   counted, tally, streak>>

\* errorHandler: the PING; when it fails, reconnect closes the connection and
\* sets it to nil before dialling
ErrorHandlerPing(i) ==
    /\ wire' = wire \ {i}
    /\ pc[i] = "EH_PING"
    /\ IF conn[ClientOf(i)] = "nil" THEN Panic(i)
       ELSE /\ IF up
               THEN /\ Finish(i, Logged(i, "PING", TRUE, "OK", store), "CommunicationError", store)
                    /\ UNCHANGED conn
               ELSE /\ Continue(i, Logged(i, "PING", FALSE, "Err", store), "EH_DIAL")
                    /\ conn' = [conn EXCEPT ![ClientOf(i)] = "nil"]
            /\ UNCHANGED <<envVars, store, lastError, frameVars, queueVars, counted, tally, streak>>

\* errorHandler -> reconnect: DialTimeout; its error is dropped by errorHandler,
\* which returns CommunicationError either way
ErrorHandlerDial(i) ==
    /\ UNCHANGED wire
    /\ pc[i] = "EH_DIAL"
    /\ conn' = [conn EXCEPT ![ClientOf(i)] = IF up THEN "open" ELSE "nil"]
    /\ Finish(i, Logged(i, "DIAL", up, IF up THEN "OK" ELSE "Err", store), "CommunicationError",
              store)
    /\ UNCHANGED <<envVars, store, lastError, frameVars, queueVars, counted, tally, streak>>

\* ------------------------------------------------------------ AddView

\* a direct caller calls client.AddView(c, g)
CallAddView(i, c, g) ==
    /\ UNCHANGED wire
    /\ pc[i] = "idle"
    /\ calls' = [calls EXCEPT ![i] = @ + 1]
    /\ Begin(i, "AddView", [ComicId |-> c, GuestId |-> g])
    /\ pc' = [pc EXCEPT ![i] = "AV_SET"]
    /\ op' = [op EXCEPT ![i] = "AddView"]
    /\ arg' = [arg EXCEPT ![i] = [ComicId |-> c, GuestId |-> g]]
    /\ UNCHANGED <<envVars, store, clientVars, daysVisited, incrErr, ret, stats, queueVars,
                   counted, tally, streak>>

\* AddView going on whatever the SET replied
AddViewIgnoreNil(reply) == "AV_ZADD_COMICS"

\* where AddView goes after an answered SET: a Nil reply (the marker exists)
\* returns nil, any other reply goes on to record the view
AddViewOnSet(reply) == IF reply = "Nil" THEN "return" ELSE "AV_ZADD_COMICS"

\* SET guest-c-g 1 NX EX 86400; a Nil reply returns nil, an error goes to
\* errorHandler(r.Err)
AddViewSet(i) ==
    /\ wire' = wire \ {i}
    /\ pc[i] = "AV_SET"
    /\ IF conn[ClientOf(i)] = "nil" THEN Panic(i)
       ELSE IF ~up
       THEN /\ lastError' = [lastError EXCEPT ![ClientOf(i)] = "cmd"]
            /\ Continue(i, Logged(i, "SET", FALSE, "Err", store), "EH_PING")
            /\ UNCHANGED <<envVars, store, conn, frameVars, queueVars, counted, tally, streak>>
       ELSE LET k == GuestKey(arg[i].ComicId, arg[i].GuestId)
                r == SetNXEX(store, k, Day, now)
                lg == [Logged(i, "SET", TRUE, r[2], r[1]) EXCEPT !.until = r[1].exp[k]]
            IN  /\ store' = r[1]
                /\ IF AddViewOnSet(r[2]) = "return"
                   THEN Finish(i, lg, "nil", r[1])
                   ELSE Continue(i, lg, AddViewOnSet(r[2]))
                /\ tally' = IF r[2] = "Nil" THEN tally
                            ELSE [tally EXCEPT ![arg[i]] = Opened(@, now)]
                /\ UNCHANGED <<envVars, clientVars, frameVars, queueVars, counted, streak>>

\* ZADD comics now c; the reply is dropped
AddViewZaddComics(i) ==
    /\ wire' = wire \ {i}
    /\ pc[i] = "AV_ZADD_COMICS"
    /\ IF conn[ClientOf(i)] = "nil" THEN Panic(i)
       ELSE /\ store' = IF up THEN ZAdd(store, ComicsKey, now, arg[i].ComicId) ELSE store
            /\ Continue(i, Logged(i, "ZADD comics", up, IF up THEN "OK" ELSE "Err", store'),
                        "AV_INCR")
            /\ UNCHANGED <<envVars, clientVars, frameVars, queueVars, counted, tally, streak>>

\* INCR visitor-c-g; daysVisited, err := r.Int()
AddViewIncr(i) ==
    /\ wire' = wire \ {i}
    /\ pc[i] = "AV_INCR"
    /\ IF conn[ClientOf(i)] = "nil" THEN Panic(i)
       ELSE LET r == Incr(store, VisitorKey(arg[i].ComicId, arg[i].GuestId))
            IN  /\ store' = IF up THEN r[1] ELSE store
                /\ daysVisited' = [daysVisited EXCEPT ![i] = IF up THEN r[2] ELSE 0]
                /\ incrErr' = [incrErr EXCEPT ![i] = ~up]
                /\ Continue(i, Logged(i, "INCR", up, IF up THEN "OK" ELSE "Err", store'),
                            "AV_EXPIRE")
                /\ tally' = [tally EXCEPT ![arg[i]].incr = IF up THEN @ + 1 ELSE @]
                /\ UNCHANGED <<envVars, clientVars, op, arg, stats, queueVars, counted, streak>>

\* EXPIRE visitor-c-g 1209600 (the reply is dropped), then if err != nil
\* errorHandler(err)
AddViewExpire(i) ==
    /\ wire' = wire \ {i}
    /\ pc[i] = "AV_EXPIRE"
    /\ IF conn[ClientOf(i)] = "nil" THEN Panic(i)
       ELSE /\ store' = IF up
                        THEN ExpireCmd(store, VisitorKey(arg[i].ComicId, arg[i].GuestId),
                                       TwoWeeks, now)
                        ELSE store
            /\ lastError' = [lastError EXCEPT ![ClientOf(i)] = IF incrErr[i] THEN "cmd" ELSE @]
            /\ Continue(i, Logged(i, "EXPIRE", up, IF up THEN "OK" ELSE "Err", store'),
                        IF incrErr[i] THEN "EH_PING" ELSE "AV_ZADD_GUEST")
            /\ streak' = IF incrErr[i] THEN [streak EXCEPT ![arg[i]] = [n |-> 0, last |-> 0]]
                         ELSE streak
            /\ UNCHANGED <<envVars, conn, frameVars, queueVars, counted, tally>>

\* the set of a guest who counts as a reader from the second day on
GuestSetKeyEarly(c, days) == IF days <= 1 THEN VisitorsDailyKey(c) ELSE ReadersKey(c)

\* the sorted set AddView files the guest in
GuestSetKey(c, days) == IF days <= 2 THEN VisitorsDailyKey(c) ELSE ReadersKey(c)

\* ZADD visitors-daily-c now g when daysVisited <= 2, ZADD readers-c now g
\* otherwise; the reply is dropped; return nil
AddViewZaddGuest(i) ==
    /\ wire' = wire \ {i}
    /\ pc[i] = "AV_ZADD_GUEST"
    /\ IF conn[ClientOf(i)] = "nil" THEN Panic(i)
       ELSE LET k == GuestSetKey(arg[i].ComicId, daysVisited[i])
                S == IF up THEN ZAdd(store, k, now, arg[i].GuestId) ELSE store
            IN  /\ store' = S
                /\ Finish(i, Logged(i, IF k = ReadersKey(arg[i].ComicId)
                                       THEN "ZADD readers" ELSE "ZADD visitors-daily",
                                    up, IF up THEN "OK" ELSE "Err", S), "nil", S)
                /\ counted' = counted \cup {arg[i].ComicId}
                /\ tally' = IF ~up THEN tally
                            ELSE IF k = ReadersKey(arg[i].ComicId)
                            THEN [tally EXCEPT ![arg[i]].readers = @ + 1]
                            ELSE [tally EXCEPT ![arg[i]].daily = @ + 1]
                /\ streak' = [streak EXCEPT ![arg[i]] = NextStreak(@, now)]
                /\ UNCHANGED <<envVars, clientVars, frameVars, queueVars>>

\* ------------------------------------------------------------ FetchComicStats

\* a direct caller calls client.FetchComicStats(c)
CallFetchComicStats(i, c) ==
    /\ UNCHANGED wire
    /\ pc[i] = "idle"
    /\ calls' = [calls EXCEPT ![i] = @ + 1]
    /\ Begin(i, "FetchComicStats", [ComicId |-> c, GuestId |-> ""])
    /\ pc' = [pc EXCEPT ![i] = "FS_ZSCORE"]
    /\ op' = [op EXCEPT ![i] = "FetchComicStats"]
    /\ arg' = [arg EXCEPT ![i] = [ComicId |-> c, GuestId |-> ""]]
    /\ stats' = [stats EXCEPT ![i] = NewStats]
    /\ UNCHANGED <<envVars, store, clientVars, daysVisited, incrErr, ret, queueVars,
                   counted, tally, streak>>

\* the reply to ZSCORE key member, ok telling whether the store was reached
ZScoreReply(S, k, m, ok) == IF ~ok THEN "Err" ELSE IF ZHas(S, k, m) THEN "OK" ELSE "Nil"

\* a plausible slip: only the reply's type is looked at, so that an error reply
\* is taken for a missing comic
FetchOnZscoreTypeOnly(reply) ==
    IF reply = "OK" THEN "FS_PRUNE_READERS" ELSE "ComicNotFoundError"

\* what FetchComicStats does on the ZSCORE reply: r.Type == redis.NilReply
\* returns ComicNotFoundError, r.Err != nil goes to errorHandler, otherwise
\* it goes on
FetchOnZscore(reply) ==
    IF reply = "Nil" THEN "ComicNotFoundError"
    ELSE IF reply = "Err" THEN "EH_PING"
    ELSE "FS_PRUNE_READERS"

\* ZSCORE comics c; a Nil reply returns ComicNotFoundError; on an error reply
\* err = client.errorHandler(err), where err is the nil named result
FetchZscore(i) ==
    /\ wire' = wire \ {i}
    /\ pc[i] = "FS_ZSCORE"
    /\ IF conn[ClientOf(i)] = "nil" THEN Panic(i)
       ELSE /\ LET reply == ZScoreReply(store, ComicsKey, arg[i].ComicId, up)
                    lg == Logged(i, "ZSCORE", up, reply, store)
                    to == FetchOnZscore(reply)
                IN  IF to = "ComicNotFoundError"
                    THEN /\ Finish(i, lg, "ComicNotFoundError", store)
                         /\ UNCHANGED <<lastError, stats>>
                    ELSE IF to = "EH_PING"
                    THEN /\ lastError' = [lastError EXCEPT ![ClientOf(i)] = "nil"]
                         /\ Continue(i, lg, "EH_PING")
                         /\ UNCHANGED stats
                    ELSE /\ stats' = [stats EXCEPT ![i].LastSeen =
                                          ZScore(store, ComicsKey, arg[i].ComicId)]
                         /\ Continue(i, lg, "FS_PRUNE_READERS")
                         /\ UNCHANGED lastError
            /\ UNCHANGED <<envVars, store, conn, op, arg, daysVisited, incrErr, queueVars,
                           counted, tally, streak>>

\* ZREMRANGEBYSCORE readers-c -inf now-1209600; the reply is dropped
FetchPruneReaders(i) ==
    /\ wire' = wire \ {i}
    /\ pc[i] = "FS_PRUNE_READERS"
    /\ IF conn[ClientOf(i)] = "nil" THEN Panic(i)
       ELSE /\ store' = IF up
                        THEN ZRemRangeByScore(store, ReadersKey(arg[i].ComicId), now - TwoWeeks)
                        ELSE store
            /\ Continue(i, Logged(i, "ZREMRANGEBYSCORE readers", up,
                                  IF up THEN "OK" ELSE "Err", store'), "FS_PRUNE_VISITORS")
            /\ UNCHANGED <<envVars, clientVars, frameVars, queueVars, counted, tally, streak>>

\* ZREMRANGEBYSCORE visitors-daily-c -inf now-86400; the reply is dropped
FetchPruneVisitors(i) ==
    /\ wire' = wire \ {i}
    /\ pc[i] = "FS_PRUNE_VISITORS"
    /\ IF conn[ClientOf(i)] = "nil" THEN Panic(i)
       ELSE /\ store' = IF up
                        THEN ZRemRangeByScore(store, VisitorsDailyKey(arg[i].ComicId), now - Day)
                        ELSE store
            /\ Continue(i, Logged(i, "ZREMRANGEBYSCORE visitors-daily", up,
                                  IF up THEN "OK" ELSE "Err", store'), "FS_ZCARD_READERS")
            /\ UNCHANGED <<envVars, clientVars, frameVars, queueVars, counted, tally, streak>>

\* stats.Readers, _ = ZCARD readers-c (0 on an error reply)
FetchZcardReaders(i) ==
    /\ wire' = wire \ {i}
    /\ pc[i] = "FS_ZCARD_READERS"
    /\ IF conn[ClientOf(i)] = "nil" THEN Panic(i)
       ELSE /\ stats' = [stats EXCEPT ![i].Readers =
                             IF up THEN ZCard(store, ReadersKey(arg[i].ComicId)) ELSE 0]
            /\ Continue(i, Logged(i, "ZCARD readers", up, IF up THEN "OK" ELSE "Err", store),
                        "FS_ZCOUNT_READERS")
            /\ UNCHANGED <<envVars, store, clientVars, op, arg, daysVisited, incrErr, queueVars,
                           counted, tally, streak>>

\* stats.Readers24h, _ = ZCOUNT readers-c now-86400 +inf (0 on an error reply)
FetchZcountReaders(i) ==
    /\ wire' = wire \ {i}
    /\ pc[i] = "FS_ZCOUNT_READERS"
    /\ IF conn[ClientOf(i)] = "nil" THEN Panic(i)
       ELSE /\ stats' = [stats EXCEPT ![i].Readers24h =
                             IF up THEN ZCount(store, ReadersKey(arg[i].ComicId), now - Day)
                             ELSE 0]
            /\ Continue(i, Logged(i, "ZCOUNT readers", up, IF up THEN "OK" ELSE "Err", store),
                        "FS_ZCARD_VISITORS")
            /\ UNCHANGED <<envVars, store, clientVars, op, arg, daysVisited, incrErr, queueVars,
                           counted, tally, streak>>

\* stats.Visitors24h, _ = ZCARD visitors-daily-c (0 on an error reply); return
FetchZcardVisitors(i) ==
    /\ wire' = wire \ {i}
    /\ pc[i] = "FS_ZCARD_VISITORS"
    /\ IF conn[ClientOf(i)] = "nil" THEN Panic(i)
       ELSE /\ stats' = [stats EXCEPT ![i].Visitors24h =
                             IF up THEN ZCard(store, VisitorsDailyKey(arg[i].ComicId)) ELSE 0]
            /\ Finish(i, Logged(i, "ZCARD visitors-daily", up, IF up THEN "OK" ELSE "Err",
                             store),
                      "nil", store)
            /\ UNCHANGED <<envVars, store, clientVars, op, arg, daysVisited, incrErr, queueVars,
                           counted, tally, streak>>

\* ------------------------------------------------------------ a shared client

\* process i is at a client.connection.Cmd(...)
AtCommand(i) == InCall(i) /\ pc[i] # "EH_DIAL"

\* client.connection.Cmd writes the command to the connection; nothing in
\* StatsClient keeps a second goroutine from doing so before the reply is read
Issue(i) ==
    /\ AtCommand(i)
    /\ i \notin wire
    /\ conn[ClientOf(i)] # "nil"
    /\ wire' = wire \cup {i}
    /\ UNCHANGED <<envVars, store, clientVars, pc, frameVars, ret, queueVars, histVars>>

\* no other process has a command in flight on the connection of process i
Alone(i) == \A j \in wire : ClientOf(j) = ClientOf(i) => j = i

\* a goroutine is handed the StatsClient another one has connected
Join(i) ==
    /\ pc[i] = "start"
    /\ ClientOf(i) # i
    /\ pc[ClientOf(i)] # "start"
    /\ pc' = [pc EXCEPT ![i] = "idle"]
    /\ UNCHANGED <<envVars, store, clientVars, frameVars, ret, queueVars, histVars, wire>>

\* ------------------------------------------------------------ the queue

\* a send on viewQueue that finds no free slot
CanSendAlways(q) == TRUE

\* a send on the channel proceeds when the buffer has a free slot, and blocks
\* otherwise
CanSend(q) == Len(q) < QueueCap

\* a request handler makes a View and sends it to viewQueue; the send blocks
\* while the buffer is full; a panic of viewLogger has ended the program
Enqueue(v) ==
    /\ UNCHANGED wire
    /\ pc[Logger] # "panic"
    /\ CanSend(queue)
    /\ queue' = Append(queue, v)
    /\ enq' = enq \cup {v}
    /\ made' = Append(made, v)
    /\ qid' = Append(qid, Len(made) + 1)
    /\ sent' = Append(sent, Len(made) + 1)
    /\ UNCHANGED <<envVars, store, clientVars, pc, frameVars, ret, view, held, taken, done,
                   histVars>>

\* viewLogger: view = <-viewQueue; err = client.AddView(view.ComicId, view.GuestId)
LoggerReceive ==
    /\ UNCHANGED wire
    /\ pc[Logger] = "LG_RECV"
    /\ queue # <<>>
    /\ view' = Head(queue)
    /\ queue' = Tail(queue)
    /\ held' = Head(qid)
    /\ qid' = Tail(qid)
    /\ taken' = taken + 1
    /\ done' = IF held = 0 THEN done ELSE done \cup {held}
    /\ Begin(Logger, "AddView", Head(queue))
    /\ pc' = [pc EXCEPT ![Logger] = "AV_SET"]
    /\ op' = [op EXCEPT ![Logger] = "AddView"]
    /\ arg' = [arg EXCEPT ![Logger] = Head(queue)]
    /\ UNCHANGED <<envVars, store, clientVars, daysVisited, incrErr, ret, stats, enq, made,
                   sent, calls, counted, tally, streak>>

\* viewLogger: if err != nil { viewQueue <- view }
LoggerRequeue ==
    /\ UNCHANGED wire
    /\ pc[Logger] = "LG_REQUEUE"
    /\ CanSend(queue)
    /\ queue' = Append(queue, view)
    /\ qid' = Append(qid, held)
    /\ sent' = Append(sent, held)
    /\ held' = 0
    /\ pc' = [pc EXCEPT ![Logger] = "LG_RECV"]
    /\ UNCHANGED <<envVars, store, clientVars, frameVars, ret, view, enq, made, taken, done,
                   histVars>>

\* ------------------------------------------------------------ the environment

\* the clock advances by d seconds, and the keys whose TTL has run out are
\* gone; the clock advances between calls (a call reads one time)
Tick(d) ==
    /\ UNCHANGED wire
    /\ \A i \in Procs : ~InCall(i)
    /\ now' = now + d
    /\ ticks' = ticks + 1
    /\ store' = Expire(store, now + d)
    /\ UNCHANGED <<up, flips, clientVars, pc, frameVars, ret, queueVars, histVars>>

\* the store becomes unreachable, or reachable again
Flip ==
    /\ UNCHANGED wire
    /\ up' = ~up
    /\ flips' = flips + 1
    /\ UNCHANGED <<now, ticks, store, clientVars, pc, frameVars, ret, queueVars, histVars>>

\* ------------------------------------------------------------ specifications

\* process i is about to issue a command (a change of the store's
\* reachability shows in nothing else)
Busy(i) == InCall(i) \/ pc[i] = "start"

\* the steps of process i inside Connect and errorHandler
ConnectionStep(i) ==
    \/ Connect(i)
    \/ ErrorHandlerPing(i)
    \/ ErrorHandlerDial(i)

\* the steps of process i inside AddView
AddViewStep(i) ==
    \/ AddViewSet(i)
    \/ AddViewZaddComics(i)
    \/ AddViewIncr(i)
    \/ AddViewExpire(i)
    \/ AddViewZaddGuest(i)

\* the steps of process i inside FetchComicStats
FetchStep(i) ==
    \/ FetchZscore(i)
    \/ FetchPruneReaders(i)
    \/ FetchPruneVisitors(i)
    \/ FetchZcardReaders(i)
    \/ FetchZcountReaders(i)
    \/ FetchZcardVisitors(i)

\* one client calling AddView and FetchComicStats one call after the other,
\* while the clock advances and the store comes and goes
Next ==
    \/ ConnectionStep("p1")
    \/ AddViewStep("p1")
    \/ FetchStep("p1")
    \/ \E c \in Comics, g \in Guests : calls["p1"] < MaxCalls /\ CallAddView("p1", c, g)
    \/ \E c \in Comics : calls["p1"] < MaxCalls /\ CallFetchComicStats("p1", c)
    \/ \E d \in Jumps : ticks < MaxTicks /\ Tick(d)
    \/ flips < MaxFlips /\ Busy("p1") /\ Flip

Spec == Init /\ [][Next]_vars

\* one client and a store that stays reachable, over more calls and more days
NextReach ==
    \/ Connect("p1")
    \/ AddViewStep("p1")
    \/ FetchStep("p1")
    \/ \E c \in Comics, g \in Guests : calls["p1"] < ReachCalls /\ CallAddView("p1", c, g)
    \/ \E c \in Comics : calls["p1"] < ReachCalls /\ CallFetchComicStats("p1", c)
    \/ \E d \in Jumps : ticks < ReachTicks /\ Tick(d)

SpecReach == Init /\ [][NextReach]_vars

\* one client calling AddView and FetchComicStats for two comics, one call
\* after the other, while the clock advances and the store comes and goes
NextFrame ==
    \/ ConnectionStep("p1")
    \/ AddViewStep("p1")
    \/ FetchStep("p1")
    \/ \E c \in AllComics, g \in Guests : calls["p1"] < FrameCalls /\ CallAddView("p1", c, g)
    \/ \E c \in AllComics : calls["p1"] < FrameCalls /\ CallFetchComicStats("p1", c)
    \/ \E d \in Jumps : ticks < FrameTicks /\ Tick(d)
    \/ flips < MaxFlips /\ Busy("p1") /\ Flip

SpecFrame == Init /\ [][NextFrame]_vars

\* several clients each calling AddView once, at the same time or days apart,
\* their commands interleaving, on a store that stays reachable
NextConc ==
    \/ \E i \in Callers : Connect(i)
    \/ \E i \in Callers : AddViewStep(i)
    \/ \E i \in Callers, c \in Comics, g \in Guests :
           calls[i] = 0 /\ CallAddView(i, c, g)
    \/ \E d \in Jumps : ticks < ConcTicks /\ Tick(d)

SpecConc == Init /\ [][NextConc]_vars

\* a process recording views (viewLogger's AddView calls, one after the other)
\* and a second process with its own client reading a comic's stats once, their
\* commands interleaving at the store, which stays reachable
NextRace ==
    \/ \E i \in {"p1", "p2"} : Connect(i)
    \/ AddViewStep("p1")
    \/ FetchStep("p2")
    \/ \E c \in Comics, g \in Guests : calls["p1"] < RaceCalls /\ CallAddView("p1", c, g)
    \/ \E c \in Comics : calls["p2"] = 0 /\ CallFetchComicStats("p2", c)
    \/ \E d \in Jumps : ticks < RaceTicks /\ Tick(d)

SpecRace == Init /\ [][NextRace]_vars

\* the request handlers, viewQueue and viewLogger, while the store comes and
\* goes
NextQueue ==
    \/ ConnectionStep(Logger)
    \/ AddViewStep(Logger)
    \/ \E v \in Views : Cardinality(enq) < MaxEnq /\ v \notin enq /\ Enqueue(v)
    \/ LoggerReceive
    \/ LoggerRequeue
    \/ flips < MaxFlips /\ Busy(Logger) /\ Flip

SpecQueue == Init /\ [][NextQueue]_vars

\* two goroutines calling AddView and FetchComicStats on one StatsClient, once
\* each, while the store comes and goes; a command is written (Issue) and then
\* answered; what two commands in flight on one connection are answered is
\* undefined, and a behaviour goes no further there
NextShared ==
    \/ Connect("s1")
    \/ Join("s2")
    \/ \E i \in Sharers : Issue(i)
    \/ \E i \in Sharers : (i \in wire \/ conn[ClientOf(i)] = "nil") /\ Alone(i) /\ ErrorHandlerPing(i)
    \/ \E i \in Sharers : (i \in wire \/ conn[ClientOf(i)] = "nil") /\ Alone(i) /\ AddViewStep(i)
    \/ \E i \in Sharers : (i \in wire \/ conn[ClientOf(i)] = "nil") /\ Alone(i) /\ FetchStep(i)
    \/ \E i \in Sharers : wire = {} /\ ErrorHandlerDial(i)
    \/ \E i \in Sharers, c \in Comics, g \in Guests : calls[i] = 0 /\ CallAddView(i, c, g)
    \/ \E i \in Sharers, c \in Comics : calls[i] = 0 /\ CallFetchComicStats(i, c)
    \/ flips < MaxFlips /\ (\E i \in Sharers : Busy(i)) /\ Flip

SpecShared == Init /\ [][NextShared]_vars

\* the n-th view of the backlog
BacklogView(n) == [ComicId |-> "c1", GuestId |-> IF n % 2 = 1 THEN "g1" ELSE "g2"]

\* the views the handlers have queued while viewLogger has not received any:
\* all of viewQueue but Room slots
Backlog == [n \in 1..(QueueCap - Room) |-> BacklogView(n)]

\* the program with the backlog queued and viewLogger about to connect
InitFull ==
    /\ now = StartTime
    /\ ticks = 0
    /\ up = TRUE
    /\ flips = 0
    /\ store = EmptyStore
    /\ conn = [i \in Procs |-> "nil"]
    /\ lastError = [i \in Procs |-> "nil"]
    /\ pc = [i \in Procs |-> "start"]
    /\ op = [i \in Procs |-> "none"]
    /\ arg = [i \in Procs |-> NoView]
    /\ daysVisited = [i \in Procs |-> 0]
    /\ incrErr = [i \in Procs |-> FALSE]
    /\ ret = [i \in Procs |-> "none"]
    /\ stats = [i \in Procs |-> NewStats]
    /\ queue = Backlog
    /\ view = NoView
    /\ enq = {Backlog[n] : n \in DOMAIN Backlog}
    /\ made = Backlog
    /\ qid = [n \in DOMAIN Backlog |-> n]
    /\ held = 0
    /\ sent = [n \in DOMAIN Backlog |-> n]
    /\ taken = 0
    /\ done = {}
    /\ wire = {}
    /\ calls = [i \in Procs |-> 0]
    /\ log = [i \in Procs |-> NoCall]
    /\ prev = [i \in Procs |-> [op |-> "none", arg |-> NoView, t0 |-> 0, clean |-> TRUE,
                                 until |-> 0]]
    /\ counted = {}
    /\ tally = [v \in AllViews |-> NoTally]
    /\ streak = [v \in AllViews |-> [n |-> 0, last |-> 0]]

\* the request handlers, viewQueue and viewLogger with viewQueue all but full,
\* while the store comes and goes
NextFull ==
    \/ ConnectionStep(Logger)
    \/ AddViewStep(Logger)
    \/ \E v \in Views : Len(made) < Len(Backlog) + MaxEnq /\ Enqueue(v)
    \/ taken < MaxRecv /\ LoggerReceive
    \/ LoggerRequeue
    \/ flips < MaxFlips /\ Busy(Logger) /\ Flip

SpecFull == InitFull /\ [][NextFull]_vars

\* ------------------------------------------------------------ reading the history

\* process i has returned from a call of method o, which log[i] describes
Returned(i, o) == log[i].op = o /\ log[i].ret # "none"

\* a store command of the call (the probe and the dial of errorHandler apart)
\* was answered with an error
Failed(l) ==
    \E n \in DOMAIN l.cmds : ~l.cmds[n].ok /\ l.cmds[n].cmd \notin {"PING", "DIAL"}

\* the call's SET set the dedupe marker
SetMarker(l) == l.cmds # <<>> /\ l.cmds[1].cmd = "SET" /\ l.cmds[1].reply = "OK"

\* the call's SET found the dedupe marker
Duplicate(l) == l.cmds # <<>> /\ l.cmds[1].cmd = "SET" /\ l.cmds[1].reply = "Nil"

\* the members of sorted set k of store S with a score of at least min
Since(S, k, min) == {m \in DOMAIN S.zs[k] : S.zs[k][m] >= min}

\* ------------------------------------------------------------ claims

\* C5: AddView returns CommunicationError whenever one of its store commands
\* (SET, ZADD comics, INCR, EXPIRE, ZADD of the guest) is answered with an
\* error, and returns nil only when none was.
C5_AddViewSurfacesFailure ==
    \A i \in Procs :
        Returned(i, "AddView") =>
            /\ Failed(log[i]) => log[i].ret = "CommunicationError"
            /\ log[i].ret = "nil" => ~Failed(log[i])

\* C6: FetchComicStats returns CommunicationError whenever one of its store
\* commands (ZSCORE, the two ZREMRANGEBYSCORE, ZCARD, ZCOUNT, ZCARD) is
\* answered with an error, and never returns nil with counts taken from an
\* error reply.
C6_FetchSurfacesFailure ==
    \A i \in Procs :
        Returned(i, "FetchComicStats") =>
            /\ Failed(log[i]) => log[i].ret = "CommunicationError"
            /\ log[i].ret = "nil" => ~Failed(log[i])

\* C7: a FetchComicStats whose ZSCORE reaches the store and finds no entry for
\* the comic returns ComicNotFoundError (not CommunicationError), and one whose
\* ZSCORE is answered with an error returns CommunicationError (not
\* ComicNotFoundError).
C7_NotFoundVersusUnreachable ==
    \A i \in Procs :
        Returned(i, "FetchComicStats") =>
            LET zscore == log[i].cmds[1]
                known == ZHas(log[i].pre, ComicsKey, log[i].arg.ComicId)
            IN  /\ zscore.cmd = "ZSCORE"
                /\ (zscore.ok /\ ~known) => log[i].ret = "ComicNotFoundError"
                /\ ~zscore.ok => log[i].ret = "CommunicationError"
                /\ log[i].ret = "ComicNotFoundError" => (zscore.ok /\ ~known)

\* C7's case: a lookup of a comic never seen returned ComicNotFoundError on a
\* reachable store, the lookup before it having failed to reach the store
C7_Witness ==
    \E i \in Procs :
        /\ Returned(i, "FetchComicStats")
        /\ log[i].ret = "ComicNotFoundError"
        /\ log[i].cmds[1].ok
        /\ prev[i].op = "FetchComicStats"
        /\ ~prev[i].clean

\* C8: once an AddView for comic c has set the marker and returned nil, every
\* FetchComicStats(c) whose commands all reach the store returns nil (and so
\* not ComicNotFoundError).
C8_RecordedComicIsFound ==
    \A i \in Procs :
        ( /\ Returned(i, "FetchComicStats")
          /\ ~Failed(log[i])
          /\ log[i].arg.ComicId \in counted )
        => log[i].ret = "nil"

\* C9: a FetchComicStats that returns nil, every command of it answered, at
\* time t returns Readers = the readers with score >= t - 14 days, Readers24h =
\* the readers with score >= t - 24 hours and Visitors24h = the daily visitors
\* with score >= t - 24 hours, of the sets as the call found them.
C9_Counting ==
    \A i \in Procs :
        (Returned(i, "FetchComicStats") /\ log[i].ret = "nil" /\ ~Failed(log[i])) =>
            LET c == log[i].arg.ComicId
                t == log[i].t0
                S == log[i].pre
            IN  /\ stats[i].Readers = Cardinality(Since(S, ReadersKey(c), t - TwoWeeks))
                /\ stats[i].Readers24h = Cardinality(Since(S, ReadersKey(c), t - Day))
                /\ stats[i].Visitors24h = Cardinality(Since(S, VisitorsDailyKey(c), t - Day))

\* C10: after a FetchComicStats that returns nil at time t, readers-c holds no
\* member with score < t - 14 days and visitors-daily-c none with score
\* < t - 24 hours, and the returned counts count no such member of the sets as
\* the call found them.
C10_WindowPruning ==
    \A i \in Procs :
        (Returned(i, "FetchComicStats") /\ log[i].ret = "nil") =>
            LET c == log[i].arg.ComicId
                t == log[i].t0
                S == log[i].pre
                T == log[i].post
            IN  /\ DOMAIN T.zs[ReadersKey(c)] \subseteq Since(T, ReadersKey(c), t - TwoWeeks)
                /\ DOMAIN T.zs[VisitorsDailyKey(c)] \subseteq Since(T, VisitorsDailyKey(c), t - Day)
                /\ stats[i].Readers <= Cardinality(Since(S, ReadersKey(c), t - TwoWeeks))
                /\ stats[i].Readers24h <= Cardinality(Since(S, ReadersKey(c), t - TwoWeeks))
                /\ stats[i].Visitors24h <= Cardinality(Since(S, VisitorsDailyKey(c), t - Day))

\* C4: of the AddView calls of a pair that set the marker and return nil, each
\* less than 14 days after the one before, the first two add the guest to
\* visitors-daily-c and not to readers-c and the third adds it to readers-c and
\* not to visitors-daily-c; a FetchComicStats(c) that returns nil after the
\* third, within the reader window, counts the guest in Readers and not in
\* Visitors24h.
C4_Graduation ==
    \A i \in Procs :
        /\ (Returned(i, "AddView") /\ log[i].ret = "nil" /\ SetMarker(log[i])) =>
              LET n == streak[log[i].arg].n
                  ta == tally[log[i].arg]
              IN  /\ n \in {1, 2} => (ta.daily = 1 /\ ta.readers = 0)
                  /\ n = 3 => (ta.readers = 1 /\ ta.daily = 0)
        /\ (Returned(i, "FetchComicStats") /\ log[i].ret = "nil") =>
              \A g \in Guests :
                  LET c == log[i].arg.ComicId
                      st == streak[[ComicId |-> c, GuestId |-> g]]
                      T == log[i].post
                  IN  (st.n = 3 /\ log[i].t0 < st.last + TwoWeeks) =>
                          /\ g \in DOMAIN T.zs[ReadersKey(c)]
                          /\ g \notin DOMAIN T.zs[VisitorsDailyKey(c)]
                          /\ stats[i].Readers = ZCard(T, ReadersKey(c))
                          /\ stats[i].Visitors24h = ZCard(T, VisitorsDailyKey(c))

\* the second of two calls did nothing: its SET found the marker and changed
\* nothing, no other command was issued, and it returned nil
NoOp(l) ==
    /\ l.cmds = <<[cmd |-> "SET", ok |-> TRUE, reply |-> "Nil", eff |-> FALSE]>>
    /\ l.ret = "nil"

\* process i has made two AddView calls for the same pair, one right after the
\* other, every command of both answered
Twice(i) ==
    /\ Returned(i, "AddView")
    /\ prev[i].op = "AddView"
    /\ prev[i].arg = log[i].arg
    /\ prev[i].clean
    /\ ~Failed(log[i])

\* C1 as stated: the second of two AddView(c,g) calls less than 24 hours
\* apart, on a reachable store and with no call in between, leaves the store
\* as the first left it, returns nil and issues no command after its SET.
C1_IdempotentWithin24h ==
    \A i \in Procs :
        (Twice(i) /\ log[i].t0 - prev[i].t0 < Day) => NoOp(log[i])

\* C1 amended: the second of two AddView(c,g) calls, on a reachable store and
\* with no call in between, made before the dedupe marker that the first call
\* set or found expires, leaves the store as the first left it, returns nil and
\* issues no command after its SET; and the marker a call sets expires 24 hours
\* after that call.
C1_IdempotentWhileMarkerLives ==
    \A i \in Procs :
        /\ (Returned(i, "AddView") /\ SetMarker(log[i])) => log[i].until = log[i].t0 + Day
        /\ (Twice(i) /\ log[i].t0 < prev[i].until) => NoOp(log[i])

\* C1's case: a first call set the marker, and a second one, later but less
\* than 24 hours later, did nothing
C1_Witness ==
    \E i \in Procs :
        /\ Twice(i)
        /\ prev[i].until = prev[i].t0 + Day
        /\ prev[i].t0 < log[i].t0
        /\ log[i].t0 < prev[i].until
        /\ NoOp(log[i])

\* a caller is inside AddView(v), past the SET that set the marker
Recording(v) ==
    \E i \in Procs :
        /\ arg[i] = v
        /\ pc[i] \in {"AV_ZADD_COMICS", "AV_INCR", "AV_EXPIRE", "AV_ZADD_GUEST"}

Recorded(v) ==
    /\ VisitorKey(v.ComicId, v.GuestId) \in DOMAIN store.kv
    /\ \/ v.GuestId \in DOMAIN store.zs[ReadersKey(v.ComicId)]
       \/ v.GuestId \in DOMAIN store.zs[VisitorsDailyKey(v.ComicId)]

\* C3: once the store is reachable again and viewLogger has worked the queue
\* off (the queue is empty and viewLogger waits for the next view), every view
\* that was enqueued is recorded.
C3_QueueResilience ==
    (up /\ queue = <<>> /\ pc[Logger] = "LG_RECV") => \A v \in enq : Recorded(v)

\* C11: viewQueue never holds more than QueueCap (1024) views; it holds, in
\* the order of the sends, exactly the views sent and not yet received, so that
\* none is dropped, overwritten or reordered and views are received in the order
\* they were sent; and while it is full no send proceeds, neither a handler's
\* nor viewLogger's.
C11_BoundedFifo ==
    /\ Len(queue) <= QueueCap
    /\ qid = SubSeq(sent, taken + 1, Len(sent))
    /\ Len(queue) = Len(qid)
    /\ \A k \in DOMAIN queue : queue[k] = made[qid[k]]
    /\ held # 0 => (held = sent[taken] /\ view = made[held])
    /\ Len(queue) = QueueCap =>
           /\ \A v \in Views : ~ENABLED Enqueue(v)
           /\ ~ENABLED LoggerRequeue

\* C11's case: viewQueue is full, with views in it that were sent after
\* viewLogger had begun to receive
C11_Witness ==
    /\ Len(queue) = QueueCap
    /\ taken >= 1
    /\ Len(made) > Len(Backlog)
    /\ pc[Logger] # "panic"

\* C12: whenever AddView has failed for the view viewLogger received,
\* viewLogger holds that view and its send of it to viewQueue can proceed:
\* viewLogger, the only receiver, is never blocked on a full viewQueue.
C12_RequeueNeverBlocks ==
    pc[Logger] = "LG_REQUEUE" =>
        /\ ret[Logger] = "CommunicationError"
        /\ held # 0 /\ view = made[held]
        /\ ENABLED LoggerRequeue

\* C13: no store command (of AddView, of FetchComicStats, the PING of
\* errorHandler) is issued on a nil connection, and a call in which
\* errorHandler has probed the connection returns CommunicationError.
C13_NoCommandOnNilConnection ==
    \A i \in Procs :
        /\ pc[i] # "panic"
        /\ (InCall(i) /\ pc[i] # "EH_DIAL") => conn[ClientOf(i)] # "nil"
        /\ (log[i].ret # "none" /\ \E n \in DOMAIN log[i].cmds : log[i].cmds[n].cmd = "PING")
               => log[i].ret = "CommunicationError"

\* C14: of the processes that use one StatsClient, at most one has a command
\* in flight on its connection at a time, and none has one in flight while
\* another is in reconnect, between closing the connection and dialling.
C14_SerializedConnection ==
    \A i, j \in Procs :
        (i # j /\ ClientOf(i) = ClientOf(j)) =>
            /\ ~(i \in wire /\ j \in wire)
            /\ ~(pc[i] = "EH_DIAL" /\ j \in wire)

C16_CauseRetained ==
    \A i \in Procs :
        /\ ret[i] \in {"none", "nil", "CommunicationError", "ComicNotFoundError"}
        /\ (log[i].op \in {"AddView", "FetchComicStats", "Connect"}
              /\ log[i].ret = "CommunicationError")
               => lastError[ClientOf(i)] \in {"cmd", "dial"}

\* the window of a comic's sorted set: 14 days for readers-c, 24 hours for
\* visitors-daily-c
Window(c, k) == IF k = ReadersKey(c) THEN TwoWeeks ELSE Day

C18_Readers24hWithinReaders ==
    \A i \in Procs :
        (Returned(i, "FetchComicStats") /\ log[i].ret = "nil") =>
            stats[i].Readers24h <= stats[i].Readers

\* the views pending in viewQueue
Pending == {qid[k] : k \in DOMAIN qid}

\* the view viewLogger holds: received, and AddView has not returned for it or
\* has returned an error and the view is not yet sent again
HeldByConsumer == IF held # 0 /\ pc[Logger] # "LG_RECV" THEN {held} ELSE {}

\* the views AddView has returned nil for
Completed ==
    done \cup (IF held # 0 /\ pc[Logger] = "LG_RECV" /\ ret[Logger] = "nil" THEN {held}
               ELSE {})

\* C19: every view a handler has enqueued is in exactly one of three
\* conditions: pending in viewQueue, and there once; held by viewLogger between
\* the receive and AddView's result or the re-queue; or completed, AddView
\* having returned nil for it. So viewLogger drops no view whose AddView failed
\* and never has two copies of a view in viewQueue.
C19_ViewConservation ==
    /\ Pending \cup HeldByConsumer \cup Completed = 1..Len(made)
    /\ Pending \cap HeldByConsumer = {}
    /\ Pending \cap Completed = {}
    /\ HeldByConsumer \cap Completed = {}
    /\ Cardinality(Pending) = Len(qid)
    /\ \A k \in DOMAIN queue : queue[k] = made[qid[k]]

\* C19's case: one view is completed, another whose AddView failed is back in
\* viewQueue (behind views made after it), and viewLogger holds a third
C19_Witness ==
    /\ Completed # {}
    /\ HeldByConsumer # {}
    /\ \E k \in DOMAIN qid \ {1} : qid[k] < qid[k - 1]

\* the time of the most recent AddView for comic c, by any guest, whose SET
\* set the marker (0: none yet)
LastPass(c) ==
    LET S == {tally[[ComicId |-> c, GuestId |-> g]].since : g \in Guests}
    IN  CHOOSE t \in S : \A u \in S : u <= t

\* the LastSeen a FetchComicStats call returned is the time of the most recent
\* AddView for its comic that passed the dedupe step
LastSeenIsLastPass ==
    \A i \in Procs :
        (Returned(i, "FetchComicStats") /\ log[i].ret = "nil") =>
            stats[i].LastSeen = LastPass(log[i].arg.ComicId)

\* a step removes no entry of comics and lowers no score, and changes comics
\* only as the ZADD of an AddView call whose SET set the marker
Forward ==
    /\ \A c \in DOMAIN store.zs[ComicsKey] :
           /\ c \in DOMAIN store'.zs[ComicsKey]
           /\ store'.zs[ComicsKey][c] >= store.zs[ComicsKey][c]
    /\ store'.zs[ComicsKey] # store.zs[ComicsKey] =>
           \E i \in Procs :
               /\ pc[i] = "AV_ZADD_COMICS" /\ pc'[i] = "AV_INCR"
               /\ log[i].cmds[1].cmd = "SET" /\ log[i].cmds[1].reply = "OK"

\* C20: the comics record only moves forward: no AddView or FetchComicStats
\* call removes an entry or lowers its score, an AddView call rejected by the
\* dedupe marker leaves the record unchanged, and the LastSeen that
\* FetchComicStats(c) returns is the time of the most recent AddView for c, by
\* any guest, that passed the dedupe step.
C20_ComicsMovesForward == [][Forward]_vars /\ []LastSeenIsLastPass

====
